---- MODULE Spec2Model ----
(***************************************************************************)
(* SysTimer, AVR backend (src/src/SysTimer_AVR.cpp): the register driver   *)
(* (stopTimer, initTimer, startTimer, setTimerInterval), the dispatch      *)
(* table _AVRTimerTable and the interrupt shim _AVRCommonHandler, run on   *)
(* one core with interrupt preemption.  The AVRTimer class itself lives in *)
(* SysTimer.h, which is not part of the sources at hand: its operations    *)
(* (configure, arm, disarm, set_callback) follow the design document.      *)
(*                                                                         *)
(* Execution is a call stack of frames.  The frame on top takes the next   *)
(* step.  A compare-match interrupt whose flag is pending, whose mask bit  *)
(* is set and which finds the global interrupt flag set is taken before    *)
(* any further software step, as the AVR core does.                        *)
(***************************************************************************)
EXTENDS Integers, Sequences, FiniteSets, TLC

\* ------------------------------------------------------------ constants

\* SYST_MAX_TIMERS: the number of timer channels of the build (1, 2 or 4).
SYST_MAX_TIMERS == 2

\* F_CPU: the clock frequency of the build, in Hz.
F_CPU == 16000000

\* The fixed prescaler selected by CS10 | CS12.
PRESCALER == 1024

\* The largest value of a uint16_t.
UINT16_MAX == 65535

\* static_cast<uint16_t>(MAX_INTERVAL * 1000.0): MAX_INTERVAL is the period
\* of 65535 ticks of 64 usec, 4.19424 s.
MAX_INTERVAL_MS == 4194

\* The number of significand bits of avr-gcc's double, which is the 32-bit
\* IEEE single format on this target.
DBL_MANT_DIG == 24

\* ------------------------------------------------------- model bounds

\* Callback invocations counted per arm() before the hardware is held.
MaxFired == 2

Channels == 0 .. (SYST_MAX_TIMERS - 1)
\* The timer objects of the program: two, on one channel or on two.
Timers == {1, 2}
NULL == 0
\* The one user callback function a timer can be given.
UserCallback == 1

\* The periods the program asks for in the full state machine.
Requests == {5000}

\* ------------------------------------------- floating-point arithmetic
\* A positive double is [m, e], standing for m * 2^e with
\* 2^(DBL_MANT_DIG-1) <= m < 2^DBL_MANT_DIG.

RECURSIVE Pow2(_)
Pow2(n) == IF n = 0 THEN 1 ELSE 2 * Pow2(n - 1)

\* The least and the first too-large significand.
MantMin == Pow2(DBL_MANT_DIG - 1)
MantLim == Pow2(DBL_MANT_DIG)

RECURSIVE Normalize(_, _)
Normalize(m, e) ==
    IF m = 0 THEN [m |-> 0, e |-> 0]
    ELSE IF m < MantMin THEN Normalize(2 * m, e - 1)
    ELSE [m |-> m, e |-> e]

\* static_cast<double>(n), exact for 0 <= n < 2^DBL_MANT_DIG.
ToDouble(n) == Normalize(n, 0)

\* n more quotient bits of r / d by long division: <<quotient, remainder>>.
RECURSIVE LongDiv(_, _, _, _)
LongDiv(r, q, d, n) ==
    IF n = 0 THEN <<q, r>>
    ELSE IF 2 * r >= d THEN LongDiv(2 * r - d, 2 * q + 1, d, n - 1)
    ELSE LongDiv(2 * r, 2 * q, d, n - 1)

\* a / b in double, rounded to nearest, ties to even.
DoubleDiv(a, b) ==
    LET k  == IF a.m >= b.m THEN DBL_MANT_DIG - 1 ELSE DBL_MANT_DIG
        qr == LongDiv(a.m % b.m, a.m \div b.m, b.m, k)
        q  == qr[1]
        r  == qr[2]
        up == (2 * r > b.m) \/ (2 * r = b.m /\ q % 2 = 1)
        qq == IF up THEN q + 1 ELSE q
    IN  IF qq = MantLim
        THEN [m |-> MantMin, e |-> a.e - b.e - k + 1]
        ELSE [m |-> qq, e |-> a.e - b.e - k]

\* A slip: the "- 1.0" left out.
DoubleSubOne_skip(x) == x

\* x - 1.0 for a double x >= 1.0 (the difference is exact).
DoubleSubOne(x) == Normalize(x.m - Pow2(0 - x.e), x.e)

\* A slip: the conversion rounds up instead of truncating.
ToUint16_roundup(x) ==
    IF x.e >= 0 THEN (x.m * Pow2(x.e)) % (UINT16_MAX + 1)
    ELSE ((x.m + Pow2(0 - x.e) - 1) \div Pow2(0 - x.e)) % (UINT16_MAX + 1)

\* static_cast<uint16_t>(x): truncation toward zero, for 0 <= x < 65536.
ToUint16(x) ==
    IF x.e >= 0 THEN (x.m * Pow2(x.e)) % (UINT16_MAX + 1)
    ELSE (x.m \div Pow2(0 - x.e)) % (UINT16_MAX + 1)

\* A slip: only the lower limit is applied.
constrain_nohigh(amt, low, high) == IF amt < low THEN low ELSE amt

\* constrain(amt, low, high) of Arduino.h.
constrain(amt, low, high) ==
    IF amt < low THEN low ELSE IF amt > high THEN high ELSE amt

\* 1024.0 / F_CPU, the period of one timer tick in seconds, as the compiler
\* folds it.
TickSeconds == DoubleDiv(ToDouble(PRESCALER), ToDouble(F_CPU))

\* The interval setTimerInterval settles on (and returns).
SetInterval(msec) == constrain(msec, 1, MAX_INTERVAL_MS)

\* The counter setTimerInterval loads into the compare register.
SetCounter(msec) ==
    LET interval == SetInterval(msec)
        elapsed  == DoubleDiv(ToDouble(interval), ToDouble(1000))
        temp     == DoubleSubOne(DoubleDiv(elapsed, TickSeconds))
    IN  ToUint16(temp)


\* --------------------------------------------------------------- state

VARIABLES
    TCCRA,            \* TCCRnA per channel: the set of bits that are 1
    TCCRB,            \* TCCRnB per channel: the set of bits that are 1
    TIMSK,            \* TIMSKn per channel: the set of bits that are 1
    OCR,              \* OCRnA per channel: the 16-bit compare value
    TIFR,             \* OCFnA per channel: a compare match awaits service
    SREG_I,           \* the global interrupt enable flag (cli clears, sei sets)
    _AVRTimerTable,   \* channel -> registered timer object, or NULL
    _timerID,         \* per timer object: its channel
    _repeating,       \* per timer object: mode flag
    _oneshot,         \* per timer object: mode flag
    _armed,           \* per timer object: armed state
    _callback,        \* per timer object: NULL or the user's function
    stack,            \* the call stack; the last frame is the one running
    ret,              \* the value the last returning call returned
    mode,             \* per timer object: the mode last configured
    fired,            \* per timer object: callback invocations since it was
                      \* last armed or configured
    fault             \* "none", or how control was lost to undefined behaviour:
                      \* "null_that" (a null table entry was dereferenced) or
                      \* "null_callback" (a null callback was called)

hw   == <<TCCRA, TCCRB, TIMSK, OCR>>
objs == <<_timerID, _repeating, _oneshot, _armed, _callback>>
vars == <<TCCRA, TCCRB, TIMSK, OCR, TIFR, SREG_I, _AVRTimerTable, _timerID,
          _repeating, _oneshot, _armed, _callback, stack, ret,
          mode, fired, fault>>

\* Register bits.
StartBits == {"CS10", "CS12", "WGM12"}                 \* prescaler 1024, CTC
ClockSelect == {"CS10", "CS11", "CS12"}
CompareEnable == {"OCIEA"}
\* What the Arduino core leaves in a 16-bit timer before the sketch runs:
\* 8-bit phase-correct PWM at prescaler 64.
CoreTCCRA == {"WGM10"}
CoreTCCRB == {"CS10", "CS11"}

\* A frame: the function, its position, its channel, its timer object (NULL
\* when it has none) and a: the period of setTimerInterval and configure,
\* disableInterrupts of stopTimer (1 or 0); of a handler, 1 once it has
\* taken the one-shot branch; of startTimer, 1 when it was called on a timer
\* that was started already; of initTimer, 1 when the channel was counting
\* at its cli().
Frame(fn, pc, c, o, a) == [fn |-> fn, pc |-> pc, c |-> c, o |-> o, a |-> a]
Top == stack[Len(stack)]
Pop == SubSeq(stack, 1, Len(stack) - 1)
Goto(pc) == [stack EXCEPT ![Len(stack)].pc = pc]
Call(frame, retpc) == Append(Goto(retpc), frame)

\* The state after construction: the dispatch table all null, the timer
\* objects unconfigured, each hardware timer either in its reset state or
\* as the core's start-up code left it, interrupts enabled.
Init ==
    /\ \E core \in {{}, Channels} :
          /\ TCCRA = [c \in Channels |-> IF c \in core THEN CoreTCCRA ELSE {}]
          /\ TCCRB = [c \in Channels |-> IF c \in core THEN CoreTCCRB ELSE {}]
          /\ TIFR = [c \in Channels |-> c \in core]
    /\ TIMSK = [c \in Channels |-> {}]
    /\ OCR = [c \in Channels |-> 0]
    /\ SREG_I = TRUE
    /\ _AVRTimerTable = [c \in Channels |-> NULL]
    /\ _timerID \in {[o \in Timers |-> 0],
                     [o \in Timers |-> IF o = 1 THEN 0 ELSE SYST_MAX_TIMERS - 1]}
    /\ _repeating = [o \in Timers |-> FALSE]
    /\ _oneshot = [o \in Timers |-> FALSE]
    /\ _armed = [o \in Timers |-> FALSE]
    /\ _callback = [o \in Timers |-> NULL]
    /\ stack = <<>>
    /\ ret = 0
    /\ mode = [o \in Timers |-> "none"]
    /\ fired = [o \in Timers |-> 0]
    /\ fault = "none"

\* ------------------------------------------------------------ hardware

Counting(c) == TCCRB[c] \cap ClockSelect # {}
Pending(c) == TIFR[c] /\ CompareEnable \subseteq TIMSK[c]
IntDeliverable == SREG_I /\ \E c \in Channels : Pending(c)
\* The pending vector of highest priority (the lowest vector address).
Vector == CHOOSE c \in Channels : Pending(c) /\ \A d \in Channels : Pending(d) => c <= d

\* The counter of a counting channel reaches the compare value.
CompareMatch ==
    /\ fault = "none"
    /\ \A o \in Timers : fired[o] < MaxFired
    /\ \E c \in Channels :
          /\ Counting(c)
          /\ ~TIFR[c]
          /\ TIFR' = [TIFR EXCEPT ![c] = TRUE]
    /\ UNCHANGED <<hw, SREG_I, _AVRTimerTable, objs, stack, ret, mode, fired, fault>>

\* A software step is taken by the running frame, when no interrupt is due.
Runs(fn, pc) ==
    /\ fault = "none"
    /\ ~IntDeliverable
    /\ stack # <<>>
    /\ Top.fn = fn
    /\ Top.pc = pc

\* ----------------------------------------------------- register driver

\* A slip: only the clock-select bits are cleared.
StopControl_clearCS(reg) == reg \ ClockSelect

\* stopTimer: what it leaves in each control register.
StopControl(reg) == {}

\* stopTimer: the global interrupt flag after "if (disableInterrupts) cli()",
\* given disableInterrupts (1 or 0) and the flag before.
StopCli(d, i) == IF d = 1 THEN FALSE ELSE i

\* Slips: sei() whatever disableInterrupts is; the sei() left out.
StopSei_always(d, i) == TRUE
StopSei_never(d, i) == i

\* stopTimer: the global interrupt flag after "if (disableInterrupts) sei()".
StopSei(d, i) == IF d = 1 THEN TRUE ELSE i

stopTimer ==
    \/ /\ Runs("stopTimer", "cli")
       /\ SREG_I' = StopCli(Top.a, SREG_I)
       /\ stack' = Goto("clear")
       /\ UNCHANGED <<hw, TIFR, _AVRTimerTable, objs, ret, mode, fired, fault>>
    \/ /\ Runs("stopTimer", "clear")
       /\ TCCRA' = [TCCRA EXCEPT ![Top.c] = StopControl(@)]
       /\ TCCRB' = [TCCRB EXCEPT ![Top.c] = StopControl(@)]
       /\ stack' = Goto("sei")
       /\ UNCHANGED <<TIMSK, OCR, TIFR, SREG_I, _AVRTimerTable, objs, ret, mode, fired, fault>>
    \/ /\ Runs("stopTimer", "sei")
       /\ SREG_I' = StopSei(Top.a, SREG_I)
       /\ stack' = Pop
       /\ UNCHANGED <<hw, TIFR, _AVRTimerTable, objs, ret, mode, fired, fault>>

\* Slips: the mask is left alone; the bit is toggled (^=) instead of set.
InitMask_none(reg) == reg
InitMask_toggle(reg) == (reg \ CompareEnable) \cup (CompareEnable \ reg)

\* initTimer: what it leaves in the mask register.
InitMask(reg) == reg \cup CompareEnable

initTimer ==
    \/ /\ Runs("initTimer", "cli")
       /\ SREG_I' = FALSE
       /\ stack' = [stack EXCEPT ![Len(stack)].pc = "stop",
                                 ![Len(stack)].a = IF Counting(Top.c) THEN 1 ELSE 0]
       /\ UNCHANGED <<hw, TIFR, _AVRTimerTable, objs, ret, mode, fired, fault>>
    \/ /\ Runs("initTimer", "stop")
       /\ stack' = Call(Frame("stopTimer", "cli", Top.c, Top.o, 0), "mask")
       /\ UNCHANGED <<hw, TIFR, SREG_I, _AVRTimerTable, objs, ret, mode, fired, fault>>
    \/ /\ Runs("initTimer", "mask")
       /\ TIMSK' = [TIMSK EXCEPT ![Top.c] = InitMask(@)]
       /\ stack' = Goto("sei")
       /\ UNCHANGED <<TCCRA, TCCRB, OCR, TIFR, SREG_I, _AVRTimerTable, objs, ret, mode, fired, fault>>
    \/ /\ Runs("initTimer", "sei")
       /\ SREG_I' = TRUE
       /\ stack' = Pop
       /\ UNCHANGED <<hw, TIFR, _AVRTimerTable, objs, ret, mode, fired, fault>>

\* A slip: the bits are toggled (^=) instead of set (|=).
StartControl_toggle(reg) == (reg \ StartBits) \cup (StartBits \ reg)

\* startTimer: what it leaves in control register B.
StartControl(reg) == reg \cup StartBits

startTimer ==
    \/ /\ Runs("startTimer", "cli")
       /\ SREG_I' = FALSE
       /\ stack' = Goto("set")
       /\ UNCHANGED <<hw, TIFR, _AVRTimerTable, objs, ret, mode, fired, fault>>
    \/ /\ Runs("startTimer", "set")
       /\ TCCRB' = [TCCRB EXCEPT ![Top.c] = StartControl(@)]
       /\ stack' = Goto("sei")
       /\ UNCHANGED <<TCCRA, TIMSK, OCR, TIFR, SREG_I, _AVRTimerTable, objs, ret, mode, fired, fault>>
    \/ /\ Runs("startTimer", "sei")
       /\ SREG_I' = TRUE
       /\ stack' = Pop
       /\ UNCHANGED <<hw, TIFR, _AVRTimerTable, objs, ret, mode, fired, fault>>

\* A slip: a missing break, every case ends in the last register.
CompareRegister_fallthrough(timerNum) == SYST_MAX_TIMERS - 1

\* setTimerInterval: the compare register that "switch (timerNum)" selects
\* (OCR1A for 0, OCR3A for 1), as an index of OCR.
CompareRegister(timerNum) == timerNum

setTimerInterval ==
    \/ /\ Runs("setTimerInterval", "cli")
       /\ SREG_I' = FALSE
       /\ stack' = Goto("load")
       /\ UNCHANGED <<hw, TIFR, _AVRTimerTable, objs, ret, mode, fired, fault>>
    \/ /\ Runs("setTimerInterval", "load")
       /\ OCR' = [OCR EXCEPT ![CompareRegister(Top.c)] = SetCounter(Top.a)]
       /\ stack' = Goto("sei")
       /\ UNCHANGED <<TCCRA, TCCRB, TIMSK, TIFR, SREG_I, _AVRTimerTable, objs, ret, mode, fired, fault>>
    \/ /\ Runs("setTimerInterval", "sei")
       /\ SREG_I' = TRUE
       /\ ret' = SetInterval(Top.a)
       /\ stack' = Pop
       /\ UNCHANGED <<hw, TIFR, _AVRTimerTable, objs, mode, fired, fault>>


\* ------------------------------------------- timer object (SysTimer.h)

\* configure(period_ms, mode): initTimer, then setTimerInterval, then the
\* mode is stored; the achieved period is what setTimerInterval returned.
\* The hardware is left stopped.
configure ==
    \/ /\ Runs("configure", "init")
       /\ stack' = Call(Frame("initTimer", "cli", Top.c, Top.o, 0), "interval")
       /\ UNCHANGED <<hw, TIFR, SREG_I, _AVRTimerTable, objs, ret, mode, fired, fault>>
    \/ /\ Runs("configure", "interval")
       /\ stack' = Call(Frame("setTimerInterval", "cli", Top.c, Top.o, Top.a), "store")
       /\ UNCHANGED <<hw, TIFR, SREG_I, _AVRTimerTable, objs, ret, mode, fired, fault>>
    \/ /\ Runs("configure", "store")
       /\ \E m \in {"repeating", "oneshot"} :
             /\ _repeating' = [_repeating EXCEPT ![Top.o] = (m = "repeating")]
             /\ _oneshot' = [_oneshot EXCEPT ![Top.o] = (m = "oneshot")]
             /\ mode' = [mode EXCEPT ![Top.o] = m]
       /\ fired' = [fired EXCEPT ![Top.o] = 0]
       /\ stack' = Pop
       /\ UNCHANGED <<hw, TIFR, SREG_I, _AVRTimerTable, _timerID, _armed, _callback, ret, fault>>

\* A slip: arm() takes the channel whoever holds it.
ArmRefused_never(o) == FALSE

\* arm() refuses a channel that another timer object is registered on.
ArmRefused(o) == _AVRTimerTable[_timerID[o]] \notin {NULL, o}

\* The object is registered and armed and its channel has been started.
Started(o) ==
    /\ _AVRTimerTable[_timerID[o]] = o
    /\ _armed[o]
    /\ StartBits \subseteq TCCRB[_timerID[o]]

\* arm(): registers the object in the dispatch table, then startTimer.
arm ==
    \/ /\ Runs("arm", "register")
       /\ ArmRefused(Top.o)
       /\ ret' = 0
       /\ stack' = Pop
       /\ UNCHANGED <<hw, TIFR, SREG_I, _AVRTimerTable, objs, mode, fired, fault>>
    \/ /\ Runs("arm", "register")
       /\ ~ArmRefused(Top.o)
       /\ _AVRTimerTable' = [_AVRTimerTable EXCEPT ![Top.c] = Top.o]
       /\ _armed' = [_armed EXCEPT ![Top.o] = TRUE]
       /\ fired' = [fired EXCEPT ![Top.o] = 0]
       /\ stack' = Call(Frame("startTimer", "cli", Top.c, Top.o,
                               IF Started(Top.o) THEN 1 ELSE 0), "done")
       /\ UNCHANGED <<hw, TIFR, SREG_I, _timerID, _repeating, _oneshot, _callback, ret, mode, fault>>
    \/ /\ Runs("arm", "done")
       /\ ret' = 1
       /\ stack' = Pop
       /\ UNCHANGED <<hw, TIFR, SREG_I, _AVRTimerTable, objs, mode, fired, fault>>

\* disarm(): stopTimer with interrupts disabled around it, then the
\* dispatch table entry of the channel is cleared.
disarm ==
    \/ /\ Runs("disarm", "stop")
       /\ stack' = Call(Frame("stopTimer", "cli", Top.c, Top.o, 1), "clear")
       /\ UNCHANGED <<hw, TIFR, SREG_I, _AVRTimerTable, objs, ret, mode, fired, fault>>
    \/ /\ Runs("disarm", "clear")
       /\ _AVRTimerTable' = [_AVRTimerTable EXCEPT ![Top.c] = NULL]
       /\ _armed' = [_armed EXCEPT ![Top.o] = FALSE]
       /\ stack' = Pop
       /\ UNCHANGED <<hw, TIFR, SREG_I, _timerID, _repeating, _oneshot, _callback, ret, mode, fired, fault>>

\* The program, between calls, calls one operation of one timer object.
MainIdle == fault = "none" /\ ~IntDeliverable /\ stack = <<>>

CallConfigure ==
    /\ MainIdle
    /\ \E o \in Timers, msec \in Requests :
          stack' = <<Frame("configure", "init", _timerID[o], o, msec)>>
    /\ UNCHANGED <<hw, TIFR, SREG_I, _AVRTimerTable, objs, ret, mode, fired, fault>>

CallArm ==
    /\ MainIdle
    /\ \E o \in Timers : stack' = <<Frame("arm", "register", _timerID[o], o, 0)>>
    /\ UNCHANGED <<hw, TIFR, SREG_I, _AVRTimerTable, objs, ret, mode, fired, fault>>

CallDisarm ==
    /\ MainIdle
    /\ \E o \in Timers : stack' = <<Frame("disarm", "stop", _timerID[o], o, 0)>>
    /\ UNCHANGED <<hw, TIFR, SREG_I, _AVRTimerTable, objs, ret, mode, fired, fault>>

\* set_callback(fn, arg): stores the callback (the argument is opaque).
set_callback ==
    /\ MainIdle
    /\ \E o \in Timers :
          /\ _callback[o] = NULL
          /\ _callback' = [_callback EXCEPT ![o] = UserCallback]
    /\ UNCHANGED <<hw, TIFR, SREG_I, _AVRTimerTable, _timerID, _repeating, _oneshot,
                   _armed, stack, ret, mode, fired, fault>>

\* ------------------------------------------------------ interrupt shim

\* ISR(TIMERn_COMPA_vect): the core clears the global interrupt flag and the
\* compare-match flag, and the vector passes its table entry to the handler.
\* A slip: every vector passes the first table entry.
VectorEntry_first(c) == _AVRTimerTable[0]

\* The table entry the vector of channel c passes to the handler.
VectorEntry(c) == _AVRTimerTable[c]

ISR ==
    /\ fault = "none"
    /\ IntDeliverable
    /\ SREG_I' = FALSE
    /\ TIFR' = [TIFR EXCEPT ![Vector] = FALSE]
    /\ stack' = Append(stack, Frame("_AVRCommonHandler", "test", Vector, VectorEntry(Vector), 0))
    /\ UNCHANGED <<hw, _AVRTimerTable, objs, ret, mode, fired, fault>>

\* A slip: the mode test left out.
Dispatches_always(that) == TRUE

\* Whether the handler invokes the callback of the object it was given.
Dispatches(that) == _repeating[that] \/ _oneshot[that]

\* Slips: the handler never disarms; the handler disarms in either mode.
SelfDisarms_never(that) == FALSE
SelfDisarms_always(that) == _repeating[that] \/ _oneshot[that]
\* A slip: the wrong flag is tested.
SelfDisarms_repeating(that) == _repeating[that]

\* Whether the handler, after the callback, disarms the object.
SelfDisarms(that) == _oneshot[that]

\* _AVRCommonHandler(that).  `that` is read without a null check and the
\* callback is called without one: with a null `that` the flags are whatever
\* lies at address 0, and a null callback is a call to address 0.  Either
\* the garbage happens to read as "nothing to do" (the call comes back), or
\* control is lost (position "lost": nothing runs any more).
_AVRCommonHandler ==
    \/ /\ Runs("_AVRCommonHandler", "test")
       /\ Top.o = NULL
       /\ \/ fault' = "null_that" /\ stack' = Goto("lost")
          \/ fault' = fault /\ stack' = Goto("reti")
       /\ UNCHANGED <<hw, TIFR, SREG_I, _AVRTimerTable, objs, ret, mode, fired>>
    \/ /\ Runs("_AVRCommonHandler", "test")
       /\ Top.o # NULL
       /\ Dispatches(Top.o)
       /\ _callback[Top.o] = NULL
       /\ \/ fault' = "null_callback" /\ stack' = Goto("lost")
          \/ fault' = fault /\ stack' = Goto("oneshot")
       /\ UNCHANGED <<hw, TIFR, SREG_I, _AVRTimerTable, objs, ret, mode, fired>>
    \/ /\ Runs("_AVRCommonHandler", "test")
       /\ Top.o # NULL
       /\ Dispatches(Top.o)
       /\ _callback[Top.o] # NULL
       /\ fired' = [fired EXCEPT ![Top.o] = @ + 1]
       /\ stack' = Goto("oneshot")
       /\ UNCHANGED <<hw, TIFR, SREG_I, _AVRTimerTable, objs, ret, mode, fault>>
    \/ /\ Runs("_AVRCommonHandler", "test")
       /\ Top.o # NULL
       /\ ~Dispatches(Top.o)
       /\ stack' = Goto("oneshot")
       /\ UNCHANGED <<hw, TIFR, SREG_I, _AVRTimerTable, objs, ret, mode, fired, fault>>
    \/ /\ Runs("_AVRCommonHandler", "oneshot")
       /\ SelfDisarms(Top.o)
       /\ _oneshot' = [_oneshot EXCEPT ![Top.o] = FALSE]
       /\ stack' = [stack EXCEPT ![Len(stack)].pc = "disarm", ![Len(stack)].a = 1]
       /\ UNCHANGED <<hw, TIFR, SREG_I, _AVRTimerTable, _timerID, _repeating, _armed,
                      _callback, ret, mode, fired, fault>>
    \/ /\ Runs("_AVRCommonHandler", "oneshot")
       /\ ~SelfDisarms(Top.o)
       /\ stack' = Goto("reti")
       /\ UNCHANGED <<hw, TIFR, SREG_I, _AVRTimerTable, objs, ret, mode, fired, fault>>
    \/ /\ Runs("_AVRCommonHandler", "disarm")
       /\ stack' = Call(Frame("disarm", "stop", _timerID[Top.o], Top.o, 1), "reti")
       /\ UNCHANGED <<hw, TIFR, SREG_I, _AVRTimerTable, objs, ret, mode, fired, fault>>
    \/ /\ Runs("_AVRCommonHandler", "reti")
       /\ SREG_I' = TRUE
       /\ stack' = Pop
       /\ UNCHANGED <<hw, TIFR, _AVRTimerTable, objs, ret, mode, fired, fault>>

\* ------------------------------------------------------- specification

Next ==
    \/ CompareMatch
    \/ ISR
    \/ _AVRCommonHandler
    \/ stopTimer
    \/ initTimer
    \/ startTimer
    \/ setTimerInterval
    \/ configure
    \/ arm
    \/ disarm
    \/ CallConfigure
    \/ CallArm
    \/ CallDisarm
    \/ set_callback

Spec == Init /\ [][Next]_vars

\* setTimerInterval alone, on every request a uint16_t can hold.
InitInterval ==
    /\ TCCRA = [c \in Channels |-> {}]
    /\ TCCRB = [c \in Channels |-> {}]
    /\ TIFR = [c \in Channels |-> FALSE]
    /\ TIMSK = [c \in Channels |-> {}]
    /\ OCR = [c \in Channels |-> 0]
    /\ SREG_I = TRUE
    /\ _AVRTimerTable = [c \in Channels |-> NULL]
    /\ _timerID = [o \in Timers |-> 0]
    /\ _repeating = [o \in Timers |-> FALSE]
    /\ _oneshot = [o \in Timers |-> FALSE]
    /\ _armed = [o \in Timers |-> FALSE]
    /\ _callback = [o \in Timers |-> NULL]
    /\ \E msec \in 0 .. UINT16_MAX :
          stack = <<Frame("setTimerInterval", "cli", 0, 1, msec)>>
    /\ ret = 0
    /\ mode = [o \in Timers |-> "none"]
    /\ fired = [o \in Timers |-> 0]
    /\ fault = "none"

SpecInterval == InitInterval /\ [][setTimerInterval]_vars

\* The register driver called directly, by a caller that may hold a
\* critical section of its own (cli(); call; sei();), with interrupts
\* running.  The start is a state the program above reaches: timer 1
\* configured and armed on channel 0, timer 2 on channel 1, each in either
\* mode and with or without a callback, both channels counting.
InitDriver ==
    /\ TCCRA = [c \in Channels |-> {}]
    /\ TCCRB = [c \in Channels |-> StartBits]
    /\ TIFR = [c \in Channels |-> FALSE]
    /\ TIMSK = [c \in Channels |-> CompareEnable]
    /\ OCR = [c \in Channels |-> SetCounter(5000)]
    /\ SREG_I = TRUE
    /\ _AVRTimerTable = [c \in Channels |-> c + 1]
    /\ _timerID = [o \in Timers |-> o - 1]
    /\ \E m \in [Timers -> {"repeating", "oneshot"}] :
          /\ mode = m
          /\ _repeating = [o \in Timers |-> m[o] = "repeating"]
          /\ _oneshot = [o \in Timers |-> m[o] = "oneshot"]
    /\ _armed = [o \in Timers |-> TRUE]
    /\ _callback \in [Timers -> {NULL, UserCallback}]
    /\ stack = <<>>
    /\ ret = 1
    /\ fired = [o \in Timers |-> 0]
    /\ fault = "none"

\* The periods a direct caller of setTimerInterval asks for.
DriverRequests == {1}

\* The calls a caller can make: stopTimer(c, true), stopTimer(c, false),
\* initTimer(c), startTimer(c), setTimerInterval(c, msec).
DriverCalls(c) ==
    {Frame("stopTimer", "cli", c, NULL, 1), Frame("stopTimer", "cli", c, NULL, 0),
     Frame("initTimer", "cli", c, NULL, 0), Frame("startTimer", "cli", c, NULL, 0)}
    \cup {Frame("setTimerInterval", "cli", c, NULL, msec) : msec \in DriverRequests}

\* The program, between calls, calls a register driver function.
CallDriver ==
    /\ MainIdle
    /\ \E c \in Channels : \E f \in DriverCalls(c) : stack' = <<f>>
    /\ UNCHANGED <<hw, TIFR, SREG_I, _AVRTimerTable, objs, ret, mode, fired, fault>>

\* The program, between calls, enters a critical section of its own.
CallCritical ==
    /\ MainIdle
    /\ \E c \in Channels : stack' = <<Frame("critical", "cli", c, NULL, 0)>>
    /\ UNCHANGED <<hw, TIFR, SREG_I, _AVRTimerTable, objs, ret, mode, fired, fault>>

\* A caller's critical section: cli(); one register driver call; sei().
\* a is 1 once the call has been made.
critical ==
    \/ /\ Runs("critical", "cli")
       /\ SREG_I' = FALSE
       /\ stack' = Goto("call")
       /\ UNCHANGED <<hw, TIFR, _AVRTimerTable, objs, ret, mode, fired, fault>>
    \/ /\ Runs("critical", "call")
       /\ \E f \in DriverCalls(Top.c) :
             stack' = Append([stack EXCEPT ![Len(stack)].pc = "sei",
                                           ![Len(stack)].a = 1], f)
       /\ UNCHANGED <<hw, TIFR, SREG_I, _AVRTimerTable, objs, ret, mode, fired, fault>>
    \/ /\ Runs("critical", "sei")
       /\ SREG_I' = TRUE
       /\ stack' = Pop
       /\ UNCHANGED <<hw, TIFR, _AVRTimerTable, objs, ret, mode, fired, fault>>

NextDriver ==
    \/ CompareMatch
    \/ ISR
    \/ _AVRCommonHandler
    \/ stopTimer
    \/ initTimer
    \/ startTimer
    \/ setTimerInterval
    \/ disarm
    \/ CallDriver
    \/ CallCritical
    \/ critical

SpecDriver == InitDriver /\ [][NextDriver]_vars

\* ---------------------------------------------------------- properties

\* The running frame is function fn at position pc, and takes its step.
Steps(fn, pc) == Runs(fn, pc) /\ stack' # stack

\* Timer ticks per second, F_CPU / PRESCALER: 15625 at 16 MHz.
TicksPerSecond == F_CPU \div PRESCALER

\* floor(seconds / (PRESCALER / F_CPU) - 1) for a period of `interval` msec,
\* in exact arithmetic.
ExactCounter(interval) == (interval * TicksPerSecond) \div 1000 - 1

\* A period of p msec is a whole number of timer ticks.
WholeTicks(p) == (p * TicksPerSecond) % 1000 = 0

\* C5: for every requested period msec in 0..65535, setTimerInterval returns
\* the period clamped into [1, MAX_INTERVAL_MS]: 1 when msec < 1,
\* MAX_INTERVAL_MS when msec > MAX_INTERVAL_MS, msec otherwise; and what it
\* returns is the period, not the comparator value it loaded.
C5_ReturnsClampedPeriod ==
    [][Steps("setTimerInterval", "sei") =>
          /\ Top.a < 1 => ret' = 1
          /\ Top.a > MAX_INTERVAL_MS => ret' = MAX_INTERVAL_MS
          /\ (Top.a >= 1 /\ Top.a <= MAX_INTERVAL_MS) => ret' = Top.a
          /\ ret' # OCR[Top.c]]_vars

\* C5 witness: a request above the maximum has returned, clamped.
C5_Witness ==
    /\ stack = <<>>
    /\ ret = MAX_INTERVAL_MS
    /\ OCR[0] # 0
    /\ OCR[0] # MAX_INTERVAL_MS

\* C6 (as claimed): the value loaded into the compare register is
\* floor(clamped_period_seconds / (PRESCALER / F_CPU) - 1), and lies in
\* 0..65535.
C6_Original ==
    (stack # <<>> /\ Top.fn = "setTimerInterval" /\ Top.pc = "sei") =>
        /\ OCR[Top.c] = ExactCounter(constrain(Top.a, 1, MAX_INTERVAL_MS))
        /\ OCR[Top.c] \in 0 .. UINT16_MAX

\* C7 (as claimed): 1 ms gives period 1 and comparator 14; 4194 ms gives
\* comparator 65534 and period 4194; 5000 ms is clamped to 4194.
C7_Original ==
    [][Steps("setTimerInterval", "sei") =>
          /\ Top.a = 1 => (ret' = 1 /\ OCR[Top.c] = 14)
          /\ Top.a = 4194 => (ret' = 4194 /\ OCR[Top.c] = 65534)
          /\ Top.a = 5000 => ret' = 4194]_vars

\* C7 (amended): 1 ms gives period 1 and comparator 14; 4194 ms gives
\* comparator 65530 and period 4194; 5000 ms is clamped to 4194.
C7_ConcreteScenario ==
    [][Steps("setTimerInterval", "sei") =>
          /\ Top.a = 1 => (ret' = 1 /\ OCR[Top.c] = 14)
          /\ Top.a = 4194 => (ret' = 4194 /\ OCR[Top.c] = 65530)
          /\ Top.a = 5000 => ret' = 4194]_vars

\* C7 witness: the request near the maximum has returned.
C7_Witness == stack = <<>> /\ ret = 4194 /\ OCR[0] = 65530

\* C8 (as claimed): for p in [1, MAX] the period returned is p when p is a
\* whole number of ticks, and otherwise a whole number of ticks that is <= p.
C8_Original ==
    [][(Steps("setTimerInterval", "sei") /\ Top.a \in 1 .. MAX_INTERVAL_MS) =>
          IF WholeTicks(Top.a) THEN ret' = Top.a
          ELSE WholeTicks(ret') /\ ret' <= Top.a]_vars

\* C8 (amended): for p in [1, MAX] the period returned is p itself, whether
\* or not p is a whole number of ticks; the period the comparator programs,
\* OCR + 1 ticks, is at least one tick, at most p, and less than two ticks
\* short of p.
C8_ReturnsRequestedPeriod ==
    [][(Steps("setTimerInterval", "sei") /\ Top.a \in 1 .. MAX_INTERVAL_MS) =>
          /\ ret' = Top.a
          /\ OCR[Top.c] + 1 >= 1
          /\ (OCR[Top.c] + 1) * 1000 <= Top.a * TicksPerSecond
          /\ Top.a * TicksPerSecond < (OCR[Top.c] + 3) * 1000]_vars

\* C8 witness: a period of 3 ms, which is no whole number of ticks, has
\* returned as 3 with 46 ticks programmed.
C8_Witness == stack = <<>> /\ ret = 3 /\ OCR[0] = 45

\* The handler frames on the stack.
Handlers == {i \in 1 .. Len(stack) : stack[i].fn = "_AVRCommonHandler"}

\* Frame i is not waiting for a call to return: it runs, or an interrupt
\* has preempted it.
Resumed(i) == i = Len(stack) \/ stack[i + 1].fn = "_AVRCommonHandler"

\* C1 (as claimed): a handler that was given a null table entry returns at
\* once: it does not lose control, invokes no callback and changes no mode
\* flag, table entry or register.
C1_Original ==
    [][(Steps("_AVRCommonHandler", "test") /\ Top.o = NULL) =>
          /\ fault' = "none"
          /\ stack' = Goto("reti")
          /\ UNCHANGED <<hw, _AVRTimerTable, objs, fired>>]_vars

\* C4 (as claimed): a handler whose object is in repeating or one-shot mode
\* and has a null callback skips the invocation and goes on to the one-shot
\* test.
C4_Original ==
    [][(/\ Steps("_AVRCommonHandler", "test")
        /\ Top.o # NULL
        /\ Dispatches(Top.o)
        /\ _callback[Top.o] = NULL) =>
          /\ fault' = "none"
          /\ stack' = Goto("oneshot")
          /\ UNCHANGED <<hw, _AVRTimerTable, objs, fired>>]_vars

\* C2: a timer configured one-shot has its callback invoked at most once
\* after it is armed; and when its handler has invoked the callback and
\* taken the one-shot branch, at the handler's return the callback has been
\* invoked exactly once, the one-shot flag is false, the object is disarmed,
\* both control registers of its channel are clear and its table entry is
\* null.
C2_OneShotOnce ==
    /\ \A o \in Timers : mode[o] = "oneshot" => fired[o] <= 1
    /\ \A i \in Handlers :
          (/\ stack[i].pc = "reti"
           /\ Resumed(i)
           /\ stack[i].a = 1
           /\ _callback[stack[i].o] # NULL) =>
             /\ fired[stack[i].o] = 1
             /\ ~_oneshot[stack[i].o]
             /\ ~_armed[stack[i].o]
             /\ TCCRA[stack[i].c] = {}
             /\ TCCRB[stack[i].c] = {}
             /\ _AVRTimerTable[stack[i].c] = NULL

\* C2 witness: the handler of a one-shot timer is about to return, having
\* invoked the callback and disarmed the timer.
C2_Witness ==
    /\ stack # <<>>
    /\ Top.fn = "_AVRCommonHandler"
    /\ Top.pc = "reti"
    /\ Top.a = 1
    /\ mode[Top.o] = "oneshot"
    /\ fired[Top.o] = 1

C9_ArmConflictRefused ==
    [][(/\ Steps("arm", "register")
        /\ _AVRTimerTable[Top.c] \notin {NULL, Top.o}) =>
          /\ ret' = 0
          /\ stack' = Pop
          /\ UNCHANGED <<hw, TIFR, SREG_I, _AVRTimerTable, objs>>]_vars

\* C9 witness: after a configure (which returned a period), an arm() has
\* returned failure while the other timer object holds the channel.
C9_Witness ==
    /\ stack = <<>>
    /\ ret = 0
    /\ _timerID[1] = _timerID[2]
    /\ _AVRTimerTable[_timerID[1]] = 1
    /\ _armed[1]
    /\ ~_armed[2]
    /\ OCR[_timerID[1]] # 0

\* C10: a step of startTimer on a channel whose control register B already
\* holds the start bits leaves every control, mask and compare register and
\* the dispatch table as they are; and arm() by the object that is already
\* registered and armed leaves the table and the armed state as they are.
C10_StartIdempotent ==
    [][/\ (/\ stack # <<>>
           /\ Top.fn = "startTimer"
           /\ StartBits \subseteq TCCRB[Top.c]
           /\ stack' # stack
           /\ Len(stack') <= Len(stack)) =>
             UNCHANGED <<hw, _AVRTimerTable>>
       /\ (/\ Steps("arm", "register")
           /\ _AVRTimerTable[Top.c] = Top.o
           /\ _armed[Top.o]) =>
             UNCHANGED <<hw, _AVRTimerTable, _armed>>]_vars

\* C10 witness: startTimer, called for a timer that was started already, has
\* written control register B and is about to return.
C10_Witness ==
    /\ stack # <<>>
    /\ Top.fn = "startTimer"
    /\ Top.pc = "sei"
    /\ Top.a = 1
    /\ StartBits \subseteq TCCRB[Top.c]

\* C11 (as claimed): while a handler is on the stack the global interrupt
\* flag stays clear, also while a one-shot handler calls disarm(), and no
\* handler begins inside a running handler: there is never more than one.
C11_Original ==
    Handlers # {} =>
        /\ ~SREG_I
        /\ Cardinality(Handlers) = 1

\* Frame i is between the disable and the enable step of a register driver
\* function that disables interrupts.
InCritical(i) ==
    \/ stack[i].fn = "initTimer" /\ stack[i].pc \in {"stop", "mask", "sei"}
    \/ stack[i].fn = "startTimer" /\ stack[i].pc \in {"set", "sei"}
    \/ stack[i].fn = "setTimerInterval" /\ stack[i].pc \in {"load", "sei"}
    \/ stack[i].fn = "stopTimer" /\ stack[i].a = 1 /\ stack[i].pc \in {"clear", "sei"}

\* C12: while initTimer is between its cli() and its sei(), the nested
\* stopTimer(channel, false) included, and while startTimer,
\* setTimerInterval or stopTimer(channel, true) is between its cli() and its
\* sei(), the global interrupt flag is clear and no handler has begun above
\* that frame.
C12_DriverAtomic ==
    \A i \in 1 .. Len(stack) :
        InCritical(i) =>
            /\ ~SREG_I
            /\ \A j \in (i + 1) .. Len(stack) : stack[j].fn # "_AVRCommonHandler"

\* C12 witness: initTimer, on a channel that was counting, has stopped it
\* and is about to set the mask bit while a compare match of that channel
\* awaits service.
C12_Witness ==
    /\ stack # <<>>
    /\ Top.fn = "initTimer"
    /\ Top.pc = "mask"
    /\ Top.a = 1
    /\ TIFR[Top.c]
    /\ CompareEnable \subseteq TIMSK[Top.c]

\* C13: when initTimer(c) returns, both control registers of channel c are
\* zero, the channel does not count and its compare-match mask bit is set;
\* and the only step that makes a channel count is the register write of
\* startTimer on that channel.
C13_InitLeavesStopped ==
    [][/\ Steps("initTimer", "sei") =>
             /\ TCCRA'[Top.c] = {}
             /\ TCCRB'[Top.c] = {}
             /\ TCCRB'[Top.c] \cap ClockSelect = {}
             /\ CompareEnable \subseteq TIMSK'[Top.c]
       /\ \A c \in Channels :
             (~Counting(c) /\ Counting(c)') =>
                 (Steps("startTimer", "set") /\ Top.c = c)]_vars

\* C13 witness: initTimer, called on a counting channel, is about to return
\* with the channel stopped and the mask bit set.
C13_Witness ==
    /\ stack # <<>>
    /\ Top.fn = "initTimer"
    /\ Top.pc = "sei"
    /\ Top.a = 1
    /\ TCCRA[Top.c] = {}
    /\ TCCRB[Top.c] = {}
    /\ CompareEnable \subseteq TIMSK[Top.c]

\* The registers of every channel but c stay as they are.
OtherChannelsKept(c) ==
    \A d \in Channels \ {c} :
        /\ TCCRA'[d] = TCCRA[d]
        /\ TCCRB'[d] = TCCRB[d]
        /\ TIMSK'[d] = TIMSK[d]
        /\ OCR'[d] = OCR[d]

\* Every object but o stays as it is.
OtherObjectsKept(o) ==
    \A p \in Timers \ {o} :
        /\ _repeating'[p] = _repeating[p]
        /\ _oneshot'[p] = _oneshot[p]
        /\ _armed'[p] = _armed[p]
        /\ _callback'[p] = _callback[p]
        /\ fired'[p] = fired[p]

\* The innermost handler on the stack.
Innermost == CHOOSE i \in Handlers : \A j \in Handlers : j <= i

\* C14: a step of stopTimer, initTimer, startTimer or setTimerInterval on
\* channel c leaves the registers of every other channel as they are; the
\* vector of channel c passes table entry c to the handler; and a step of
\* the handler of channel c, or of the disarm() it calls, leaves every other
\* table entry, every other object and the registers of every other channel
\* as they are.
C14_ChannelIsolation ==
    [][/\ (/\ Runs(Top.fn, Top.pc)
           /\ Top.fn \in {"stopTimer", "initTimer", "startTimer", "setTimerInterval"}) =>
             OtherChannelsKept(Top.c)
       /\ (/\ Len(stack') = Len(stack) + 1
           /\ stack'[Len(stack')].fn = "_AVRCommonHandler") =>
             stack'[Len(stack')].o = _AVRTimerTable[stack'[Len(stack')].c]
       /\ (Handlers # {} /\ Runs(Top.fn, Top.pc)) =>
             /\ OtherChannelsKept(stack[Innermost].c)
             /\ OtherObjectsKept(stack[Innermost].o)
             /\ \A d \in Channels \ {stack[Innermost].c} :
                   _AVRTimerTable'[d] = _AVRTimerTable[d]
             /\ _timerID' = _timerID]_vars

\* C14 witness: the handler of channel 1 has disarmed its one-shot timer and
\* is about to return, and channel 0 still counts for the armed timer
\* registered on it.
C14_Witness ==
    /\ stack # <<>>
    /\ Top.fn = "_AVRCommonHandler"
    /\ Top.pc = "reti"
    /\ Top.a = 1
    /\ Top.c = 1
    /\ Counting(0)
    /\ _AVRTimerTable[0] = 1
    /\ _armed[1]
    /\ fired[2] = 1

\* C15: when stopTimer(c, d) returns, for d true or false, both control
\* registers of channel c are zero; no step of stopTimer changes a mask or a
\* compare register; and no step of stopTimer on a channel whose control
\* registers are zero already changes any register.
C15_StopIdempotent ==
    [][/\ Steps("stopTimer", "sei") =>
             /\ TCCRA'[Top.c] = {}
             /\ TCCRB'[Top.c] = {}
       /\ (Runs("stopTimer", Top.pc) /\ stack' # stack) =>
             UNCHANGED <<TIMSK, OCR>>
       /\ (/\ Runs("stopTimer", Top.pc)
           /\ stack' # stack
           /\ TCCRA[Top.c] = {}
           /\ TCCRB[Top.c] = {}) =>
             UNCHANGED hw]_vars

\* C15 witness: disarm() of a configured timer that is not armed has called
\* stopTimer(c, true) on its stopped channel, which is about to return with
\* the control registers zero, the mask bit set and the compare value kept.
C15_Witness ==
    /\ stack # <<>>
    /\ Top.fn = "stopTimer"
    /\ Top.pc = "sei"
    /\ Top.a = 1
    /\ Top.o # NULL
    /\ mode[Top.o] # "none"
    /\ ~_armed[Top.o]
    /\ _AVRTimerTable[Top.c] = NULL
    /\ TCCRA[Top.c] = {}
    /\ TCCRB[Top.c] = {}
    /\ CompareEnable \subseteq TIMSK[Top.c]
    /\ OCR[Top.c] # 0

\* C16: every step of a handler that was given an object whose repeating
\* and one-shot flags are both false, and that has not taken the one-shot
\* branch, invokes no callback, does not lose control, does not go on to
\* disarm() and leaves the flags, the dispatch table and every register as
\* they are.
C16_NeitherModeNoEffect ==
    [][(/\ Runs("_AVRCommonHandler", Top.pc)
        /\ stack' # stack
        /\ Top.o # NULL
        /\ Top.a = 0
        /\ ~_repeating[Top.o]
        /\ ~_oneshot[Top.o]) =>
          /\ UNCHANGED <<hw, _AVRTimerTable, objs, fired>>
          /\ fault' = "none"
          /\ Len(stack') <= Len(stack)
          /\ Len(stack') = Len(stack) => stack'[Len(stack)].pc \in {"oneshot", "reti"}]_vars

\* C16 witness: the handler of a registered one-shot timer that has fired
\* before (both flags false) is about to return, having invoked nothing.
C16_Witness ==
    /\ stack # <<>>
    /\ Top.fn = "_AVRCommonHandler"
    /\ Top.pc = "reti"
    /\ Top.a = 0
    /\ Top.o # NULL
    /\ mode[Top.o] = "oneshot"
    /\ ~_oneshot[Top.o]
    /\ ~_repeating[Top.o]
    /\ _callback[Top.o] # NULL
    /\ _armed[Top.o]
    /\ fired[Top.o] = 0

\* C19: a compare-match mask bit that is set stays set in every step.
C19_MaskMonotonic ==
    [][\A c \in Channels :
          CompareEnable \subseteq TIMSK[c] => CompareEnable \subseteq TIMSK'[c]]_vars

\* C19 witness: a timer has fired and has been disarmed, its channel is
\* stopped and unregistered, and the mask bit of the channel is still set.
C19_Witness ==
    \E o \in Timers :
       /\ stack = <<>>
       /\ fired[o] >= 1
       /\ ~_armed[o]
       /\ _AVRTimerTable[_timerID[o]] = NULL
       /\ ~Counting(_timerID[o])
       /\ CompareEnable \subseteq TIMSK[_timerID[o]]

\* The handler's step that invokes the callback of a one-shot timer.
OneShotCallback ==
    /\ Steps("_AVRCommonHandler", "test")
    /\ Top.o # NULL
    /\ _oneshot[Top.o]
    /\ _callback[Top.o] # NULL

\* C20 (as claimed): when the handler invokes the callback of a one-shot
\* timer, the timer is registered, its one-shot flag is set and the
\* hardware is counting, before and after the invocation.
C20_Original ==
    [][OneShotCallback =>
          /\ _AVRTimerTable[Top.c] = Top.o
          /\ _oneshot'[Top.o]
          /\ _AVRTimerTable'[Top.c] = Top.o
          /\ Counting(Top.c)
          /\ TCCRB'[Top.c] \cap ClockSelect # {}]_vars

\* C20 (amended): when the handler invokes the callback of a one-shot timer,
\* the timer is registered and its one-shot flag is set, before and after
\* the invocation, and neither the interrupt entry nor the invocation writes
\* a register, so the hardware counts exactly if it did when the interrupt
\* was taken; while a handler runs, the one-shot flag is cleared only by the
\* handler's step after the callback; and that step goes on to disarm()
\* exactly if the flag reads set then.
C20_CallbackBeforeDisarm ==
    [][/\ OneShotCallback =>
             /\ _AVRTimerTable[Top.c] = Top.o
             /\ fired'[Top.o] = fired[Top.o] + 1
             /\ _oneshot'[Top.o]
             /\ _AVRTimerTable'[Top.c] = Top.o
             /\ UNCHANGED <<hw, _armed>>
             /\ stack' = Goto("oneshot")
       /\ (/\ Len(stack') = Len(stack) + 1
           /\ stack'[Len(stack')].fn = "_AVRCommonHandler") =>
             UNCHANGED <<hw, _AVRTimerTable, objs>>
       /\ \A o \in Timers :
             (Handlers # {} /\ _oneshot[o] /\ ~_oneshot'[o]) =>
                 (Steps("_AVRCommonHandler", "oneshot") /\ Top.o = o)
       /\ Steps("_AVRCommonHandler", "oneshot") =>
             /\ UNCHANGED <<hw, _AVRTimerTable, _armed, fired>>
             /\ (stack'[Len(stack)].pc = "disarm") = _oneshot[Top.o]
             /\ (stack'[Len(stack)].pc = "reti") = ~_oneshot[Top.o]]_vars

\* C20 witness: the handler of a one-shot timer has invoked the callback and
\* has not yet tested the flag: the timer is registered, armed and flagged
\* one-shot, and its channel counts.
C20_Witness ==
    /\ stack # <<>>
    /\ Top.fn = "_AVRCommonHandler"
    /\ Top.pc = "oneshot"
    /\ Top.o # NULL
    /\ mode[Top.o] = "oneshot"
    /\ _oneshot[Top.o]
    /\ fired[Top.o] = 1
    /\ _AVRTimerTable[Top.c] = Top.o
    /\ _armed[Top.o]
    /\ Counting(Top.c)

\* C17: no step of setTimerInterval(c, msec) changes a control register or
\* a mask register, or the compare register of another channel, or an
\* object or the dispatch table: channel c counts after the step exactly if
\* it counted before.
C17_IntervalWritesCompareOnly ==
    [][(Runs("setTimerInterval", Top.pc) /\ stack' # stack) =>
          /\ UNCHANGED <<TCCRA, TCCRB, TIMSK, _AVRTimerTable, objs>>
          /\ \A d \in Channels \ {Top.c} : OCR'[d] = OCR[d]
          /\ (TCCRB'[Top.c] \cap ClockSelect # {}) = Counting(Top.c)]_vars

\* C17 witness: setTimerInterval has loaded a new compare value into a
\* channel that counts with its interrupt enabled, and is about to return.
C17_Witness ==
    /\ stack # <<>>
    /\ Top.fn = "setTimerInterval"
    /\ Top.pc = "sei"
    /\ OCR[Top.c] = SetCounter(Top.a)
    /\ \E d \in Channels \ {Top.c} : OCR[d] # OCR[Top.c]
    /\ Counting(Top.c)
    /\ CompareEnable \subseteq TIMSK[Top.c]

\* C18: initTimer, startTimer, setTimerInterval and stopTimer(c, true)
\* return with the global interrupt flag set, whatever it was when they
\* were called; no step of stopTimer(c, false) changes the flag.
C18_InterruptsEnabledOnReturn ==
    [][/\ (\/ Steps("initTimer", "sei")
           \/ Steps("startTimer", "sei")
           \/ Steps("setTimerInterval", "sei")
           \/ Steps("stopTimer", "sei") /\ Top.a = 1) =>
             SREG_I'
       /\ (Runs("stopTimer", Top.pc) /\ Top.a = 0 /\ stack' # stack) =>
             SREG_I' = SREG_I]_vars

\* C18 witness: a register driver function other than stopTimer(c, false),
\* called inside the caller's critical section, has returned, and the
\* global interrupt flag is set before the caller's own sei().
C18_Witness ==
    /\ Len(stack) = 1
    /\ Top.fn = "critical"
    /\ Top.pc = "sei"
    /\ Top.a = 1
    /\ SREG_I

====
